---- MODULE Spec2Model ----
(***************************************************************************)
(* The request-admission controller of app.py: class RateLimiter, the      *)
(* cached instance get_rate_limiter() hands to every script run, and the   *)
(* chat input handler that gates the agent call with it.                   *)
(*                                                                         *)
(* Times are in hundredths of a second (time.time() is a float of          *)
(* seconds): 6.0 s is 600, 60 s is 6000.  The three time.time() reads of   *)
(* one can_make_request() call (lines 70, 84, 77) are taken at one         *)
(* instant; record_request() reads the clock again (line 103), so time may *)
(* pass between a check and the record that follows it.                    *)
(***************************************************************************)
EXTENDS Integers, Sequences, FiniteSets, TLC

VARIABLES
    now,                 \* the value time.time() returns
    minute_requests,     \* self.minute_requests
    daily_requests,      \* self.daily_requests
    request_timestamps,  \* self.request_timestamps (the burst history)
    last_request_time,   \* self.last_request_time, 0 = never
    file,                \* the content of RATE_LIMIT_FILE
    pc,                  \* each caller's position in the chat input handler
    ret,                 \* each caller's (can_request, msg_status)
    stats,               \* each caller's stats (line 181)
    response_output,     \* each caller's response_output: what its run shows
    read_at,             \* ghost: when each caller last read the limiter
    history,             \* ghost: every timestamp record_request() appended
    wfails,              \* ghost: how many save_state() calls failed to write
    ticks                \* ghost: clock advances made (bounds SpecAPI)

vars == <<now, minute_requests, daily_requests, request_timestamps,
          last_request_time, file, pc, ret, stats, response_output, read_at,
          history, wfails, ticks>>

limiter == <<minute_requests, daily_requests, request_timestamps,
             last_request_time>>

(* ---------------------------- configuration ---------------------------- *)

MAX_REQUESTS_PER_MINUTE == 10
MAX_REQUESTS_PER_DAY == 1500
MAX_TOKENS_PER_MINUTE == 1000000
REQUEST_COOLDOWN == 600
MINUTE_WINDOW == 6000
DAY_WINDOW == 8640000
BURST_WINDOW == 30000
BURST_THRESHOLD == 3
BACKOFF_CAP == 6000

(* ------------------------------- bounds -------------------------------- *)

StartTime == 10000000    \* the clock when the model starts (> DAY_WINDOW)
MaxElapsed == 1200       \* Spec, SpecRace: the clock stops here
MaxWriteFailures == 1    \* save_state() calls that fail in one run
MaxPrior == 9            \* calls of the minute before the model starts
MaxTicks == 3            \* SpecAPI: clock advances
MaxBurst == 11           \* SpecAPI: record_request() calls at StartTime
MaxRecords == 1          \* SpecAPI: record_request() calls after StartTime
MaxStored == 3           \* SpecStore: record_request() calls
MaxKept == 3             \* SpecPrune: record_request() calls
MaxLife == 7000          \* SpecLife: the clock stops here
OldSpacing == 5700       \* spacing of the calls of the day before
OldLead == 900           \* the oldest of them leaves the day window then

Steps == {300, 600}
StepsAPI == {5, 300, 5700, 24000, 8634000}
Callers == {1, 2}
StepsLife == {200}

(* ------------------------------ helpers -------------------------------- *)

Min2(a, b) == IF a <= b THEN a ELSE b

\* min(list) of a non-empty list
ListMin(s) == CHOOSE x \in {s[i] : i \in 1..Len(s)} :
                 \A j \in 1..Len(s) : x <= s[j]

\* the filter with < for >: it keeps what has left the window
Prune_stale_kept(s, t, window) == SelectSeq(s, LAMBDA x : x < t - window)

\* the filter with >= for >
Prune_inclusive(s, t, window) == SelectSeq(s, LAMBDA x : x >= t - window)

\* [t for t in s if t > current_time - window]
Prune(s, t, window) == SelectSeq(s, LAMBDA x : x > t - window)

\* f"{w:.0f}": w rounded to whole seconds.  A value half way between two
\* results is a float that lies on either side of the tie.
Format0(w) ==
    LET q == w \div 100
        r == w % 100
    IN  IF r < 50 THEN {q} ELSE IF r > 50 THEN {q + 1} ELSE {q, q + 1}

\* f"{w:.1f}": w rounded to tenths of a second (the result is in tenths)
Format1(w) ==
    LET q == w \div 10
        r == w % 10
    IN  IF r < 5 THEN {q} ELSE IF r > 5 THEN {q + 1} ELSE {q, q + 1}

(* ----------------------------- RateLimiter ----------------------------- *)

NoFile == [kind |-> "absent", minute_requests |-> <<>>,
           daily_requests |-> <<>>, last_request_time |-> 0]

CorruptFile == [kind |-> "corrupt", minute_requests |-> <<>>,
                daily_requests |-> <<>>, last_request_time |-> 0]

\* what last_request_time holds when line 46 read a JSON value that is not a
\* number (a string, null, a list): state.get() hands it over as it is
NotANumber == -1

\* reset_state(): [minute_requests, daily_requests, request_timestamps,
\*                 last_request_time]
reset_state == <<<<>>, <<>>, <<>>, 0>>

\* __init__() that fills the burst history from the file's minute window
load_state_burst_restored(f) ==
    IF f.kind = "ok"
    THEN <<f.minute_requests, f.daily_requests, f.minute_requests,
           f.last_request_time>>
    ELSE <<reset_state[1], reset_state[2], <<>>, reset_state[4]>>

\* load_state() that ignores the file
load_state_reset(f) == <<reset_state[1], reset_state[2], <<>>, reset_state[4]>>

\* load_state() that does not read last_request_time
load_state_no_last(f) ==
    IF f.kind = "ok"
    THEN <<f.minute_requests, f.daily_requests, <<>>, 0>>
    ELSE <<reset_state[1], reset_state[2], <<>>, reset_state[4]>>

\* __init__(): load_state(), then request_timestamps = []
load_state(f) ==
    IF f.kind = "ok"
    THEN <<f.minute_requests, f.daily_requests, <<>>, f.last_request_time>>
    ELSE <<reset_state[1], reset_state[2], <<>>, reset_state[4]>>

\* save_state() whose dictionary leaves out 'daily_requests'
save_state_day_dropped(mr, dr, last, old, outcome) ==
    [kind |-> "ok", minute_requests |-> mr, daily_requests |-> <<>>,
     last_request_time |-> last]

\* save_state() that writes nothing and reports nothing
save_state_lost(mr, dr, last, old, outcome) == old

\* save_state(): what the file holds afterwards.  json.dump writes each
\* float as its repr and json.load reads that back as the same float, so
\* the file is modelled by the numbers it spells.  outcome "ok": json.dump
\* wrote the state; "open_fails": open() raised, the file is as it was;
\* "dump_fails": open() truncated the file and the write raised.
save_state(mr, dr, last, old, outcome) ==
    CASE outcome = "ok" ->
            [kind |-> "ok", minute_requests |-> mr, daily_requests |-> dr,
             last_request_time |-> last]
      [] outcome = "open_fails" -> old
      [] OTHER -> CorruptFile

WriteOutcomes == {"ok", "open_fails", "dump_fails"}

\* calculate_backoff_time() that never backs off
calculate_backoff_time_none(rt, t) == 0

\* calculate_backoff_time() without the cap of line 79
calculate_backoff_time_uncapped(rt, t) ==
    IF Len(rt) >= BURST_THRESHOLD
    THEN LET recent_requests == Prune(rt, t, MINUTE_WINDOW)
         IN  IF Len(recent_requests) >= BURST_THRESHOLD
             THEN (2 ^ (Len(recent_requests) - 2)) * 100
             ELSE 0
    ELSE 0

\* calculate_backoff_time() at time t
calculate_backoff_time(rt, t) ==
    IF Len(rt) >= BURST_THRESHOLD
    THEN LET recent_requests == Prune(rt, t, MINUTE_WINDOW)
         IN  IF Len(recent_requests) >= BURST_THRESHOLD
             THEN Min2((2 ^ (Len(recent_requests) - 2)) * 100, BACKOFF_CAP)
             ELSE 0
    ELSE 0

Allowed == [allowed |-> TRUE, rule |-> "none", shown |-> 0]

\* line 94 raised TypeError: '>' between a value that is not a number and 0
Raised == [allowed |-> FALSE, rule |-> "TypeError", shown |-> 0]
Denial(rule, shown) == [allowed |-> FALSE, rule |-> rule, shown |-> shown]

\* the minute limit tested with > for >=
minute_limit_over(mr) == Len(mr) > MAX_REQUESTS_PER_MINUTE

\* line 86: the minute limit is reached
minute_limit_hit(mr) == Len(mr) >= MAX_REQUESTS_PER_MINUTE

\* lines 87-88: the wait until the oldest entry leaves the minute window
wait_time(mr, t) ==
    LET oldest_request == ListMin(mr)
    IN  MINUTE_WINDOW - (t - oldest_request)

\* the daily limit tested with > for >=
daily_limit_over(dr) == Len(dr) > MAX_REQUESTS_PER_DAY

\* line 91: the daily limit is reached
daily_limit_hit(dr) == Len(dr) >= MAX_REQUESTS_PER_DAY

\* the spacing without REQUEST_COOLDOWN
cooldown_backoff_only(rt, t) == calculate_backoff_time(rt, t)

\* line 96: the spacing asked for at time t
cooldown(rt, t) == REQUEST_COOLDOWN + calculate_backoff_time(rt, t)

\* the spacing tested with <= for <
cooldown_active_inclusive(rt, last, t) ==
    /\ last > 0
    /\ t - last <= cooldown(rt, t)

\* lines 94-97: a call was made and the spacing has not elapsed
cooldown_active(rt, last, t) ==
    /\ last > 0
    /\ t - last < cooldown(rt, t)

\* can_make_request() with the daily rule tested before the minute rule
can_make_request_daily_first(mr, dr, rt, last, t) ==
    IF daily_limit_hit(dr)
    THEN {Denial("daily", 0)}
    ELSE IF minute_limit_hit(mr)
    THEN {Denial("minute", s) : s \in Format0(wait_time(mr, t))}
    ELSE IF cooldown_active(rt, last, t)
    THEN {Denial("cooldown", s) : s \in Format1(cooldown(rt, t) - (t - last))}
    ELSE {Allowed}

\* can_make_request() after clean_old_requests(): the values it can return on
\* the pruned lists mr, dr, rt at time t.  shown is the number the message
\* carries (whole seconds for the minute rule, tenths for the cooldown).
can_make_request(mr, dr, rt, last, t) ==
    IF minute_limit_hit(mr)
    THEN {Denial("minute", s) : s \in Format0(wait_time(mr, t))}
    ELSE IF daily_limit_hit(dr)
    THEN {Denial("daily", 0)}
    ELSE IF last = NotANumber
    THEN {Raised}
    ELSE IF cooldown_active(rt, last, t)
    THEN {Denial("cooldown", s) : s \in Format1(cooldown(rt, t) - (t - last))}
    ELSE {Allowed}

\* get_stats() that counts the minute window for the day as well
get_stats_minute_twice(mr, dr) ==
    [minute_used |-> Len(mr),
     minute_limit |-> MAX_REQUESTS_PER_MINUTE,
     minute_remaining |-> MAX_REQUESTS_PER_MINUTE - Len(mr),
     daily_used |-> Len(mr),
     daily_limit |-> MAX_REQUESTS_PER_DAY,
     daily_remaining |-> MAX_REQUESTS_PER_DAY - Len(mr),
     tokens_per_minute |-> MAX_TOKENS_PER_MINUTE]

\* get_stats() on the pruned lists
get_stats(mr, dr) ==
    [minute_used |-> Len(mr),
     minute_limit |-> MAX_REQUESTS_PER_MINUTE,
     minute_remaining |-> MAX_REQUESTS_PER_MINUTE - Len(mr),
     daily_used |-> Len(dr),
     daily_limit |-> MAX_REQUESTS_PER_DAY,
     daily_remaining |-> MAX_REQUESTS_PER_DAY - Len(dr),
     tokens_per_minute |-> MAX_TOKENS_PER_MINUTE]

NoRet == [allowed |-> FALSE, rule |-> "unset", shown |-> 0]
NoStats == get_stats(<<>>, <<>>)

\* response_output: the kind of response and, for a denial, the
\* msg_status it repeats (lines 250-251)
Output(kind) == [kind |-> kind, msg |-> NoRet]
NoOutput == Output("nothing")
DenialOutput(msg_status) == [kind |-> "denial", msg |-> msg_status]

(* ------------------------------- actions ------------------------------- *)

\* clean_old_requests() without line 72
Cleaned_day_kept ==
    /\ minute_requests' = Prune(minute_requests, now, MINUTE_WINDOW)
    /\ daily_requests' = daily_requests
    /\ request_timestamps' = Prune(request_timestamps, now, BURST_WINDOW)

\* clean_old_requests() at the current time
Cleaned ==
    /\ minute_requests' = Prune(minute_requests, now, MINUTE_WINDOW)
    /\ daily_requests' = Prune(daily_requests, now, DAY_WINDOW)
    /\ request_timestamps' = Prune(request_timestamps, now, BURST_WINDOW)

\* the body of can_make_request() run by caller c
Check(c) ==
    /\ Cleaned
    /\ \E r \in can_make_request(minute_requests', daily_requests',
                                 request_timestamps', last_request_time, now) :
          ret' = [ret EXCEPT ![c] = r]
    /\ read_at' = [read_at EXCEPT ![c] = now]
    /\ UNCHANGED <<now, last_request_time, file, response_output, history,
                   wfails, ticks>>

\* record_request() without line 106
Record_burst_skipped(outcome) ==
    /\ minute_requests' = Append(minute_requests, now)
    /\ daily_requests' = Append(daily_requests, now)
    /\ request_timestamps' = request_timestamps
    /\ last_request_time' = now
    /\ file' = save_state(minute_requests', daily_requests',
                          last_request_time', file, outcome)
    /\ history' = Append(history, now)
    /\ wfails' = IF outcome = "ok" THEN wfails ELSE wfails + 1
    /\ wfails' <= MaxWriteFailures
    /\ UNCHANGED <<now, response_output, ticks>>

\* the body of record_request(), its save_state() ending as outcome says
Record(outcome) ==
    /\ minute_requests' = Append(minute_requests, now)
    /\ daily_requests' = Append(daily_requests, now)
    /\ request_timestamps' = Append(request_timestamps, now)
    /\ last_request_time' = now
    /\ file' = save_state(minute_requests', daily_requests',
                          last_request_time', file, outcome)
    /\ history' = Append(history, now)
    /\ wfails' = IF outcome = "ok" THEN wfails ELSE wfails + 1
    /\ wfails' <= MaxWriteFailures
    /\ UNCHANGED <<now, response_output, ticks>>

\* time passes
Tick(d) ==
    /\ now + d <= StartTime + MaxElapsed
    /\ now' = now + d
    /\ UNCHANGED <<limiter, file, pc, ret, stats, response_output, read_at,
                   history, wfails, ticks>>

\* lines 268-282: the script run of caller c shows out as its response and
\* is over: its locals are gone
EndRun(c, out) ==
    /\ response_output' = [response_output EXCEPT ![c] = out]
    /\ pc' = [pc EXCEPT ![c] = "idle"]
    /\ ret' = [ret EXCEPT ![c] = NoRet]
    /\ stats' = [stats EXCEPT ![c] = NoStats]
    /\ read_at' = [read_at EXCEPT ![c] = 0]

\* lines 180-181: every script run starts by reading the statistics for the
\* sidebar
GetStats(c) ==
    /\ pc[c] = "idle"
    /\ Cleaned
    /\ stats' = [stats EXCEPT ![c] = get_stats(minute_requests', daily_requests')]
    /\ read_at' = [read_at EXCEPT ![c] = now]
    /\ pc' = [pc EXCEPT ![c] = "input"]
    /\ response_output' = [response_output EXCEPT ![c] = NoOutput]
    /\ UNCHANGED <<now, last_request_time, file, ret, history, wfails, ticks>>

\* line 241: no prompt was entered
NoRequest(c) ==
    /\ pc[c] = "input"
    /\ EndRun(c, NoOutput)
    /\ UNCHANGED <<now, limiter, file, history, wfails, ticks>>

\* lines 244-246: generate_response() finds a greeting, a farewell or a
\* thanks in the prompt and answers it without the limiter
SmallTalk(c) ==
    /\ pc[c] = "input"
    /\ EndRun(c, Output("small talk"))
    /\ UNCHANGED <<now, limiter, file, history, wfails, ticks>>

\* line 248: a domain question asks the limiter
CanMakeRequest(c) ==
    /\ pc[c] = "input"
    /\ Check(c)
    /\ pc' = [pc EXCEPT ![c] = "checked"]
    /\ UNCHANGED stats

\* lines 249-251: the denial is shown, nothing is recorded
Denied(c) ==
    /\ pc[c] = "checked"
    /\ ~ret[c].allowed
    /\ ret[c] # Raised
    /\ EndRun(c, DenialOutput(ret[c]))
    /\ UNCHANGED <<now, limiter, file, history, wfails, ticks>>

\* record_request() called whatever can_make_request() returned
RecordRequest_unchecked(c, outcome) ==
    /\ pc[c] = "checked"
    /\ Record(outcome)
    /\ pc' = [pc EXCEPT ![c] = "calling"]
    /\ UNCHANGED <<ret, stats, read_at>>

\* lines 252-253: allowed, so the attempt is recorded
RecordRequest(c, outcome) ==
    /\ pc[c] = "checked"
    /\ ret[c].allowed
    /\ Record(outcome)
    /\ pc' = [pc EXCEPT ![c] = "calling"]
    /\ UNCHANGED <<ret, stats, read_at>>

\* lines 265-266: the agent call returns its answer, or raises and the
\* script's outer handler (lines 294-296) shows the error
AgentCall(c) ==
    /\ pc[c] = "calling"
    /\ \E out \in {Output("answer"), Output("error")} : EndRun(c, out)
    /\ UNCHANGED <<now, limiter, file, history, wfails, ticks>>

\* lines 294-296: can_make_request() raised; the script's outer handler
\* shows the error and the run is over
Surfaced(c) ==
    /\ pc[c] = "checked"
    /\ ret[c] = Raised
    /\ EndRun(c, Output("error"))
    /\ UNCHANGED <<now, limiter, file, history, wfails, ticks>>

\* the process ends and a new one builds its RateLimiter from the file
Restart ==
    /\ LET s == load_state(file)
       IN  /\ minute_requests' = s[1]
           /\ daily_requests' = s[2]
           /\ request_timestamps' = s[3]
           /\ last_request_time' = s[4]
    /\ pc' = [c \in Callers |-> "idle"]
    /\ ret' = [c \in Callers |-> NoRet]
    /\ stats' = [c \in Callers |-> NoStats]
    /\ read_at' = [c \in Callers |-> 0]
    /\ response_output' = [c \in Callers |-> NoOutput]
    /\ UNCHANGED <<now, file, history, wfails, ticks>>

(* --------------------------- specifications ---------------------------- *)

InitFrom(f) ==
    /\ now = StartTime
    /\ file = f
    /\ LET s == load_state(f)
       IN  /\ minute_requests = s[1]
           /\ daily_requests = s[2]
           /\ request_timestamps = s[3]
           /\ last_request_time = s[4]
    /\ pc = [c \in Callers |-> "idle"]
    /\ ret = [c \in Callers |-> NoRet]
    /\ stats = [c \in Callers |-> NoStats]
    /\ read_at = [c \in Callers |-> 0]
    /\ response_output = [c \in Callers |-> NoOutput]
    /\ wfails = 0
    /\ ticks = 0

\* The calls earlier processes made, as a single caller spaced them: old of
\* them OldSpacing apart, the first about to leave the day window, then
\* recent of them REQUEST_COOLDOWN apart, the last REQUEST_COOLDOWN ago.
PriorCalls(old, recent) ==
    [i \in 1..(old + recent) |->
        IF i <= old
        THEN StartTime - DAY_WINDOW + OldLead + (i - 1) * OldSpacing
        ELSE StartTime - (old + recent - i + 1) * REQUEST_COOLDOWN]

\* the file the last of these processes left: save_state() ran in the
\* record_request() of the last call, after the clean_old_requests() of its
\* can_make_request()
PriorFile(old, recent) ==
    IF old + recent = 0 THEN NoFile
    ELSE LET calls == PriorCalls(old, recent)
             last == calls[Len(calls)]
         IN  [kind |-> "ok",
              minute_requests |-> Prune(calls, last, MINUTE_WINDOW),
              daily_requests |-> Prune(calls, last, DAY_WINDOW),
              last_request_time |-> last]

\* as many old calls as leave room for MAX_REQUESTS_PER_MINUTE new ones
OldCalls == MAX_REQUESTS_PER_DAY - MAX_REQUESTS_PER_MINUTE

\* the calls a run can add: one every REQUEST_COOLDOWN until the clock stops
MaxNew == MaxElapsed \div REQUEST_COOLDOWN + 1

\* a first deployment (no file yet), or a restart after earlier calls; after
\* a day of calls, those from which the run can reach the daily limit
Init ==
    \E old \in {0, OldCalls}, recent \in 0..MaxPrior :
        /\ old > 0 => old + recent + MaxNew >= MAX_REQUESTS_PER_DAY
        /\ InitFrom(PriorFile(old, recent))
        /\ history = PriorCalls(old, recent)

Handler(c) ==
    \/ GetStats(c)
    \/ NoRequest(c)
    \/ SmallTalk(c)
    \/ CanMakeRequest(c)
    \/ Denied(c)
    \/ \E o \in WriteOutcomes : RecordRequest(c, o)
    \/ AgentCall(c)

\* the single-threaded UI: one caller, one prompt at a time
Next ==
    \/ \E d \in Steps : Tick(d)
    \/ Handler(1)
    \/ Restart

Spec == Init /\ [][Next]_vars

(* Two sessions: st.cache_resource hands both script runs the same         *)
(* RateLimiter and nothing keeps one run's check and record together.      *)

InitRace ==
    \E recent \in 0..MaxPrior :
        /\ InitFrom(PriorFile(0, recent))
        /\ history = PriorCalls(0, recent)

RaceHandler(c) ==
    \/ GetStats(c)
    \/ NoRequest(c)
    \/ SmallTalk(c)
    \/ CanMakeRequest(c)
    \/ Denied(c)
    \/ RecordRequest(c, "ok")
    \/ AgentCall(c)

NextRace ==
    \/ \E d \in Steps : Tick(d)
    \/ \E c \in Callers : RaceHandler(c)
    \/ Restart

SpecRace == InitRace /\ [][NextRace]_vars

(* The file is whatever the disk holds when the process starts: absent,   *)
(* not readable as the JSON object load_state() expects, an object whose   *)
(* last_request_time is not a number, or the file an earlier process left. *)

BadLastFile(recent) ==
    IF recent = 0
    THEN [kind |-> "ok", minute_requests |-> <<>>, daily_requests |-> <<>>,
          last_request_time |-> NotANumber]
    ELSE [PriorFile(0, recent) EXCEPT !.last_request_time = NotANumber]

InitLoad ==
    \E recent \in 0..MaxPrior :
        /\ \E f \in {NoFile, CorruptFile, BadLastFile(recent),
                      PriorFile(0, recent)} : InitFrom(f)
        /\ history = PriorCalls(0, recent)

LoadHandler(c) ==
    \/ GetStats(c)
    \/ NoRequest(c)
    \/ SmallTalk(c)
    \/ CanMakeRequest(c)
    \/ Denied(c)
    \/ Surfaced(c)
    \/ RecordRequest(c, "ok")
    \/ AgentCall(c)

NextLoad ==
    \/ \E d \in Steps : Tick(d)
    \/ LoadHandler(1)
    \/ Restart

SpecLoad == InitLoad /\ [][NextLoad]_vars

(* The class on its own: its three methods called in any order, as a test  *)
(* of the class calls them, record_request() without a check before it.    *)

ApiTick(d) ==
    /\ ticks < MaxTicks
    /\ ticks' = ticks + 1
    /\ now' = now + d
    /\ pc' = [pc EXCEPT ![1] = "idle"]
    /\ ret' = [ret EXCEPT ![1] = NoRet]
    /\ stats' = [stats EXCEPT ![1] = NoStats]
    /\ read_at' = [read_at EXCEPT ![1] = 0]
    /\ UNCHANGED <<limiter, file, response_output, history, wfails>>

ApiCanMakeRequest ==
    /\ Check(1)
    /\ pc' = [pc EXCEPT ![1] = "checked"]
    /\ stats' = [stats EXCEPT ![1] = NoStats]

ApiRecordRequest ==
    /\ IF now = StartTime
       THEN Len(history) < MaxBurst
       ELSE Len(SelectSeq(history, LAMBDA x : x > StartTime)) < MaxRecords
    /\ Record("ok")
    /\ pc' = [pc EXCEPT ![1] = "idle"]
    /\ ret' = [ret EXCEPT ![1] = NoRet]
    /\ stats' = [stats EXCEPT ![1] = NoStats]
    /\ read_at' = [read_at EXCEPT ![1] = 0]

ApiGetStats ==
    /\ Cleaned
    /\ stats' = [stats EXCEPT ![1] = get_stats(minute_requests', daily_requests')]
    /\ read_at' = [read_at EXCEPT ![1] = now]
    /\ pc' = [pc EXCEPT ![1] = "input"]
    /\ ret' = [ret EXCEPT ![1] = NoRet]
    /\ UNCHANGED <<now, last_request_time, file, response_output, history,
                   wfails, ticks>>

InitAPI ==
    /\ InitFrom(NoFile)
    /\ history = <<>>

NextAPI ==
    \/ \E d \in StepsAPI : ApiTick(d)
    \/ ApiCanMakeRequest
    \/ ApiRecordRequest
    \/ ApiGetStats
    \/ Restart

SpecAPI == InitAPI /\ [][NextAPI]_vars

(* The class on its own in one process, the disk failing some writes.      *)

\* the calls this process recorded
InProcess == SelectSeq(history, LAMBDA x : x >= StartTime)

InitStore ==
    \E recent \in 0..MaxPrior :
        /\ InitFrom(PriorFile(0, recent))
        /\ history = PriorCalls(0, recent)

StoreRecordRequest(outcome) ==
    /\ Len(InProcess) < MaxStored
    /\ Record(outcome)
    /\ pc' = [pc EXCEPT ![1] = "idle"]
    /\ ret' = [ret EXCEPT ![1] = NoRet]
    /\ stats' = [stats EXCEPT ![1] = NoStats]
    /\ read_at' = [read_at EXCEPT ![1] = 0]

NextStore ==
    \/ \E d \in Steps : ApiTick(d)
    \/ ApiCanMakeRequest
    \/ \E o \in WriteOutcomes : StoreRecordRequest(o)
    \/ ApiGetStats

SpecStore == InitStore /\ [][NextStore]_vars

(* The class on its own from a first deployment, a few calls recorded at   *)
(* any of the clock's values: what the checks and the statistics prune.    *)

PruneRecordRequest ==
    /\ Len(history) < MaxKept
    /\ Record("ok")
    /\ pc' = [pc EXCEPT ![1] = "idle"]
    /\ ret' = [ret EXCEPT ![1] = NoRet]
    /\ stats' = [stats EXCEPT ![1] = NoStats]
    /\ read_at' = [read_at EXCEPT ![1] = 0]

NextPrune ==
    \/ \E d \in StepsAPI : ApiTick(d)
    \/ ApiCanMakeRequest
    \/ PruneRecordRequest
    \/ ApiGetStats

SpecPrune == InitAPI /\ [][NextPrune]_vars

(* One process from a first deployment, never restarted: a caller that    *)
(* asks can_make_request() and calls record_request() only when allowed,   *)
(* at any whole second it likes.                                           *)

LifeTick(d) ==
    /\ now + d <= StartTime + MaxLife
    /\ now' = now + d
    /\ pc' = [pc EXCEPT ![1] = "idle"]
    /\ ret' = [ret EXCEPT ![1] = NoRet]
    /\ stats' = [stats EXCEPT ![1] = NoStats]
    /\ read_at' = [read_at EXCEPT ![1] = 0]
    /\ UNCHANGED <<limiter, file, response_output, history, wfails, ticks>>

LifeRecordRequest ==
    /\ pc[1] = "checked"
    /\ ret[1].allowed
    /\ Record("ok")
    /\ pc' = [pc EXCEPT ![1] = "idle"]
    /\ ret' = [ret EXCEPT ![1] = NoRet]
    /\ stats' = [stats EXCEPT ![1] = NoStats]
    /\ read_at' = [read_at EXCEPT ![1] = 0]

NextLife ==
    \/ \E d \in StepsLife : LifeTick(d)
    \/ ApiCanMakeRequest
    \/ LifeRecordRequest

SpecLife == InitAPI /\ [][NextLife]_vars

(* ------------------------------- claims -------------------------------- *)

\* the entries of s less than window old at time t
Within(s, t, window) == SelectSeq(s, LAMBDA x : t - x < window)

\* the calls made within the trailing 60 s of time t
CallsInMinute(t) == Len(Within(history, t, MINUTE_WINDOW))

C2_MinimumSpacing ==
    /\ wfails = 0 =>
          \A i \in 1..(Len(history) - 1) :
              history[i + 1] - history[i] >= REQUEST_COOLDOWN
    /\ \A c \in Callers :
          (pc[c] = "checked" /\ ret[c].allowed /\ last_request_time > 0)
              => read_at[c] - last_request_time >= REQUEST_COOLDOWN

\* a call recorded in this run exactly REQUEST_COOLDOWN after the one before
C2_Witness ==
    /\ wfails = 0
    /\ pc[1] = "calling"
    /\ Len(history) >= 2
    /\ history[Len(history)] = now
    /\ now - history[Len(history) - 1] = REQUEST_COOLDOWN

\* the rule that denies at time t on the pruned lists, "none" if none does
FirstRule(mr, dr, rt, last, t) ==
    CASE Len(mr) >= MAX_REQUESTS_PER_MINUTE -> "minute"
      [] Len(mr) < MAX_REQUESTS_PER_MINUTE /\ Len(dr) >= MAX_REQUESTS_PER_DAY
            -> "daily"
      [] Len(mr) < MAX_REQUESTS_PER_MINUTE /\ Len(dr) < MAX_REQUESTS_PER_DAY
            /\ last > 0
            /\ t - last < REQUEST_COOLDOWN + calculate_backoff_time(rt, t)
            -> "cooldown"
      [] OTHER -> "none"

\* C3: the answer of can_make_request() is that of the first rule that
\* holds, in the order minute limit, daily limit, cooldown plus backoff; it
\* allows, with no reason, exactly when none of them holds.
C3_DecisionOrder ==
    \A c \in Callers :
        pc[c] = "checked" =>
            /\ ret[c].rule = FirstRule(minute_requests, daily_requests,
                                       request_timestamps, last_request_time,
                                       read_at[c])
            /\ ret[c].allowed <=> ret[c].rule = "none"

\* all three rules hold at once and the minute rule answers
C3_Witness ==
    /\ pc[1] = "checked"
    /\ Len(minute_requests) >= MAX_REQUESTS_PER_MINUTE
    /\ Len(daily_requests) >= MAX_REQUESTS_PER_DAY
    /\ last_request_time > 0
    /\ read_at[1] - last_request_time < REQUEST_COOLDOWN
    /\ ret[1].rule = "minute"

\* shown is the wait w (hundredths of a second) rounded to a multiple of unit
Rounded(shown, w, unit) == 2 * shown * unit - unit <= 2 * w
                           /\ 2 * w <= 2 * shown * unit + unit

\* C4: with exactly MAX_REQUESTS_PER_MINUTE calls in the minute window a check
\* denies with the wait 60 - (now - oldest), shown in whole seconds; with one
\* fewer the minute rule does not deny, and the check allows when neither the
\* daily limit nor the cooldown stands in the way.
C4_HardCeiling ==
    \A c \in Callers :
        pc[c] = "checked" =>
            /\ Len(minute_requests) = MAX_REQUESTS_PER_MINUTE =>
                  /\ ~ret[c].allowed
                  /\ ret[c].rule = "minute"
                  /\ Rounded(ret[c].shown,
                             MINUTE_WINDOW - (read_at[c] - ListMin(minute_requests)),
                             100)
            /\ Len(minute_requests) = MAX_REQUESTS_PER_MINUTE - 1 =>
                  /\ ret[c].rule # "minute"
                  /\ (/\ Len(daily_requests) < MAX_REQUESTS_PER_DAY
                      /\ read_at[c] - last_request_time
                            >= REQUEST_COOLDOWN
                               + calculate_backoff_time(request_timestamps,
                                                        read_at[c]))
                        => ret[c].allowed

\* ten calls in the window, the oldest 0.05 s old: "Wait 60s"
C4_Witness ==
    /\ pc[1] = "checked"
    /\ Len(minute_requests) = MAX_REQUESTS_PER_MINUTE
    /\ read_at[1] - ListMin(minute_requests) = 5
    /\ ret[1] = Denial("minute", 60)

\* C5: after one record_request() at t0 on an empty state a check before
\* t0 + 6 s denies with the wait 6 - (now - t0), shown in tenths of a second;
\* a check at t0 + 6 s or later allows.
C5_Cooldown ==
    \A c \in Callers :
        (pc[c] = "checked" /\ Len(history) = 1) =>
            LET elapsed == read_at[c] - history[1]
            IN  IF elapsed < REQUEST_COOLDOWN
                THEN /\ ~ret[c].allowed
                     /\ ret[c].rule = "cooldown"
                     /\ Rounded(ret[c].shown, REQUEST_COOLDOWN - elapsed, 10)
                ELSE ret[c].allowed

\* the check 3 s after the call: "Please wait 3.0s"
C5_Witness ==
    /\ pc[1] = "checked"
    /\ Len(history) = 1
    /\ read_at[1] - history[1] = 300
    /\ ret[1] = Denial("cooldown", 30)

\* the backoff the claim gives for n burst timestamps in the trailing 60 s
BackoffTable(n) ==
    CASE n < 3 -> 0
      [] n = 3 -> 200
      [] n = 4 -> 400
      [] n = 5 -> 800
      [] n = 6 -> 1600
      [] n = 7 -> 3200
      [] OTHER -> 6000

\* C6: the backoff is 0 with fewer than 3 burst timestamps in the trailing
\* 60 s and min(2^(n-2), 60) s with n of them: 2, 4, 8 s for n = 3, 4, 5 and
\* 60 s for n = 10; it is never negative and never above 60 s.
C6_BackoffGrowth ==
    LET n == Len(Within(request_timestamps, now, MINUTE_WINDOW))
        b == calculate_backoff_time(request_timestamps, now)
    IN  /\ b = BackoffTable(n)
        /\ 0 <= b
        /\ b <= 6000

\* ten burst timestamps in the trailing 60 s: 60 s, not 256 s
C6_Witness ==
    /\ Len(Within(request_timestamps, now, MINUTE_WINDOW)) = 10
    /\ now > StartTime
    /\ calculate_backoff_time(request_timestamps, now) = 6000

\* s is what is left of t after dropping some of its first entries
IsSuffix(s, t) ==
    /\ Len(s) <= Len(t)
    /\ s = SubSeq(t, Len(t) - Len(s) + 1, Len(t))

\* C7: a recorded timestamp counts toward a window of length W at time now
\* exactly while it is less than W old (60 s, 86,400 s, 300 s): a check
\* leaves in the minute and day lists the calls made that are inside the
\* window and no others, in the burst list only calls inside its window, and
\* the minute rule denies only on calls inside the minute window.
C7_WindowEviction ==
    \A c \in Callers :
        pc[c] = "checked" =>
            /\ minute_requests = Within(history, read_at[c], MINUTE_WINDOW)
            /\ daily_requests = Within(history, read_at[c], DAY_WINDOW)
            /\ IsSuffix(request_timestamps,
                        Within(history, read_at[c], BURST_WINDOW))
            /\ ret[c].rule = "minute" <=>
                  Len(Within(history, read_at[c], MINUTE_WINDOW))
                      >= MAX_REQUESTS_PER_MINUTE

\* ten calls at StartTime and a check 60 s later: none counts, no minute denial
C7_Witness ==
    /\ pc[1] = "checked"
    /\ Len(history) = MAX_REQUESTS_PER_MINUTE
    /\ history[MAX_REQUESTS_PER_MINUTE] = StartTime
    /\ read_at[1] = StartTime + MINUTE_WINDOW
    /\ minute_requests = <<>>
    /\ ret[1].rule # "minute"

\* C8 as stated: once the day list holds MAX_REQUESTS_PER_DAY entries a check
\* denies with the static daily message, whatever the other windows hold.
C8_AnyState ==
    \A c \in Callers :
        (pc[c] = "checked" /\ Len(daily_requests) >= MAX_REQUESTS_PER_DAY)
            => ret[c] = Denial("daily", 0)

\* C8 amended: such a check denies; the reason is the static daily message
\* when the minute list holds fewer than MAX_REQUESTS_PER_MINUTE entries
\* (whatever the age of the oldest day entry and the cooldown), and the
\* minute message otherwise.
C8_DailyCeiling ==
    \A c \in Callers :
        (pc[c] = "checked" /\ Len(daily_requests) >= MAX_REQUESTS_PER_DAY)
            => /\ ~ret[c].allowed
               /\ Len(minute_requests) < MAX_REQUESTS_PER_MINUTE
                     => ret[c] = Denial("daily", 0)
               /\ Len(minute_requests) >= MAX_REQUESTS_PER_MINUTE
                     => ret[c].rule = "minute"

\* the daily denial with the oldest day entry 3 s from leaving the window
\* and the cooldown elapsed
C8_Witness ==
    /\ pc[1] = "checked"
    /\ Len(daily_requests) = MAX_REQUESTS_PER_DAY
    /\ Len(minute_requests) < MAX_REQUESTS_PER_MINUTE
    /\ read_at[1] - last_request_time >= REQUEST_COOLDOWN
    /\ DAY_WINDOW - (read_at[1] - daily_requests[1]) <= 300
    /\ ret[1] = Denial("daily", 0)

Fresh(s, t, window) == \A i \in 1..Len(s) : t - s[i] < window

\* the three lists hold only timestamps inside their windows at time t
ListsFresh(t) ==
    /\ Fresh(minute_requests, t, MINUTE_WINDOW)
    /\ Fresh(daily_requests, t, DAY_WINDOW)
    /\ Fresh(request_timestamps, t, BURST_WINDOW)

\* the persisted lists hold only timestamps inside their windows at time t
FileFresh(t) ==
    /\ Fresh(file.minute_requests, t, MINUTE_WINDOW)
    /\ Fresh(file.daily_requests, t, DAY_WINDOW)

\* caller c has just read the limiter (can_make_request() or get_stats())
JustRead(c) == pc[c] \in {"input", "checked"} /\ read_at[c] = now

\* caller c has just run record_request()
JustRecorded(c) == pc[c] = "calling" /\ last_request_time = now

\* a check decides on the entries inside the windows alone
DecidesOnFresh(c) ==
    pc[c] = "checked" =>
        ret[c].rule =
            FirstRule(Within(minute_requests, read_at[c], MINUTE_WINDOW),
                      Within(daily_requests, read_at[c], DAY_WINDOW),
                      Within(request_timestamps, read_at[c], BURST_WINDOW),
                      last_request_time, read_at[c])

\* C10 as stated: at every can_make_request(), get_stats(), record_request()
\* and the save_state() of it, each list holds only timestamps inside its
\* window at that moment, and no stale entry influences a decision.
C10_EveryReadAndWrite ==
    \A c \in Callers :
        /\ JustRead(c) => ListsFresh(now)
        /\ JustRecorded(c) => ListsFresh(now)
        /\ (JustRecorded(c) /\ file.kind = "ok"
                /\ file.last_request_time = now) => FileFresh(now)
        /\ DecidesOnFresh(c)

\* C10 amended: that holds at every can_make_request() and get_stats(), and
\* no stale entry influences a decision; record_request() does not prune:
\* the lists it leaves and persists hold only timestamps that were inside
\* their windows at the can_make_request() before it.
C10_PruningInvariant ==
    \A c \in Callers :
        /\ JustRead(c) => ListsFresh(now)
        /\ JustRecorded(c) => ListsFresh(read_at[c])
        /\ (JustRecorded(c) /\ file.kind = "ok"
                /\ file.last_request_time = now) => FileFresh(read_at[c])
        /\ DecidesOnFresh(c)

\* MAX_REQUESTS_PER_DAY calls were made, the oldest has left the day window,
\* and the check allows
C10_Witness ==
    /\ JustRead(1)
    /\ wfails = 0
    /\ Len(history) >= MAX_REQUESTS_PER_DAY
    /\ Len(daily_requests) = MAX_REQUESTS_PER_DAY - 1
    /\ ret[1].allowed

\* the timestamps a list holds
Entries(s) == {s[i] : i \in 1..Len(s)}

\* the timestamps the three lists hold
AllEntries ==
    Entries(minute_requests) \cup Entries(daily_requests)
        \cup Entries(request_timestamps)

SetMax(S) == CHOOSE x \in S : \A y \in S : y <= x

\* C11 as stated: in every state last_request_time is the maximum of the
\* entries of the three lists (0, the value of reset_state(), while the
\* lists have never held one).
C11_AlwaysMaximum ==
    IF AllEntries = {}
    THEN last_request_time = 0
    ELSE last_request_time = SetMax(AllEntries)

\* C11 amended: last_request_time is 0 or the time of a recorded call, no
\* entry of the three lists is later than it, it is their maximum while
\* they hold an entry, and it is 0 only while they hold none; pruning may
\* evict every entry and leaves last_request_time as it was.
C11_LastRequestTime ==
    /\ last_request_time = 0 \/ last_request_time \in Entries(history)
    /\ \A x \in AllEntries : x <= last_request_time
    /\ AllEntries # {} => last_request_time \in AllEntries
    /\ last_request_time = 0 => AllEntries = {}

\* a check pruned the minute window empty and the day window still holds
\* the last call
C11_Witness ==
    /\ pc[1] = "checked"
    /\ minute_requests = <<>>
    /\ daily_requests # <<>>
    /\ last_request_time = SetMax(AllEntries)

\* C12 as stated: whatever the file held when the controller was built,
\* no can_make_request() raises.
C12_NeverSurfaced == \A c \in Callers : ret[c] # Raised

\* get_stats() of this controller at time t
OriginalStats(t) ==
    get_stats(Prune(minute_requests, t, MINUTE_WINDOW),
              Prune(daily_requests, t, DAY_WINDOW))

\* get_stats() at time t of a controller built from the file now
ReloadedStats(t) ==
    LET s == load_state(file)
    IN  get_stats(Prune(s[1], t, MINUTE_WINDOW), Prune(s[2], t, DAY_WINDOW))

\* C13: after any number of record_request() calls whose save_state() wrote
\* the file, a controller built from the file reports the same get_stats()
\* as this one at the same time.
C13_RoundTrip == ReloadedStats(now) = OriginalStats(now)

\* three or more calls were recorded, pruning has since made the lists in
\* memory differ from the file, and both still count a call
C13_Witness ==
    /\ Len(history) >= 3
    /\ file.kind = "ok"
    /\ minute_requests # file.minute_requests
    /\ OriginalStats(now).minute_used > 0
    /\ OriginalStats(now).daily_used > OriginalStats(now).minute_used

\* what can_make_request() would return at time t in this process
DecisionAt(t) ==
    can_make_request(Prune(minute_requests, t, MINUTE_WINDOW),
                     Prune(daily_requests, t, DAY_WINDOW),
                     Prune(request_timestamps, t, BURST_WINDOW),
                     last_request_time, t)

\* what it would return now
DecisionHere == DecisionAt(now)

\* what it would return now in a process started from the file
DecisionRestarted ==
    LET s == load_state(file)
    IN  can_make_request(Prune(s[1], now, MINUTE_WINDOW),
                         Prune(s[2], now, DAY_WINDOW),
                         Prune(s[3], now, BURST_WINDOW), s[4], now)

\* the file holds the last call this process knows of
Persisted == load_state(file)[4] = last_request_time

\* C14: while every save_state() wrote the file, a process started from the
\* file holds every recorded call still inside the minute and day windows;
\* whenever the file holds the last recorded call, that process holds the
\* same entries inside the two windows as this one and the same
\* last_request_time; a check the minute rule or the daily rule denies here
\* gets the same denial there, and one denied here less than
\* REQUEST_COOLDOWN after the last call is denied by the cooldown there.
C14_LimitsSurviveRestart ==
    /\ wfails = 0 =>
        /\ Persisted
        /\ Prune(load_state(file)[1], now, MINUTE_WINDOW)
               = Prune(history, now, MINUTE_WINDOW)
        /\ Prune(load_state(file)[2], now, DAY_WINDOW)
               = Prune(history, now, DAY_WINDOW)
    /\ Persisted =>
        LET s == load_state(file)
        IN  /\ Prune(s[1], now, MINUTE_WINDOW)
                   = Prune(minute_requests, now, MINUTE_WINDOW)
            /\ Prune(s[2], now, DAY_WINDOW)
                   = Prune(daily_requests, now, DAY_WINDOW)
            /\ \A r \in DecisionHere :
                   /\ r.rule \in {"minute", "daily"}
                         => DecisionRestarted = DecisionHere
                   /\ (r.rule = "cooldown"
                          /\ now - last_request_time < REQUEST_COOLDOWN)
                         => \A q \in DecisionRestarted : q.rule = "cooldown"

\* a call recorded in this run, then a restart (the burst history is gone),
\* and the check after it is denied by the cooldown
C14_Witness ==
    /\ wfails = 0
    /\ last_request_time >= StartTime
    /\ request_timestamps = <<>>
    /\ pc[1] = "checked"
    /\ ret[1].rule = "cooldown"

\* b is a with some entries older than window at time t taken out, and
\* nothing else changed
OnlyExpiredRemoved(a, b, t, window) ==
    /\ Len(b) <= Len(a)
    /\ b = SelectSeq(a, LAMBDA x : x \in Entries(b))
    /\ \A x \in Entries(a) \ Entries(b) : t - x >= window

\* C15: a can_make_request() call adds to no list and leaves
\* last_request_time and the file alone; all it changes is to take out the
\* entries that have left their window; a second call at the same time
\* would find nothing to prune and can return what the first returned.
C15_IdempotentPruning ==
    [][ApiCanMakeRequest =>
          /\ OnlyExpiredRemoved(minute_requests, minute_requests', now,
                                MINUTE_WINDOW)
          /\ OnlyExpiredRemoved(daily_requests, daily_requests', now,
                                DAY_WINDOW)
          /\ OnlyExpiredRemoved(request_timestamps, request_timestamps', now,
                                BURST_WINDOW)
          /\ last_request_time' = last_request_time
          /\ file' = file
          /\ now' = now
          /\ Prune(minute_requests', now', MINUTE_WINDOW) = minute_requests'
          /\ Prune(daily_requests', now', DAY_WINDOW) = daily_requests'
          /\ Prune(request_timestamps', now', BURST_WINDOW)
                 = request_timestamps'
          /\ ret'[1] \in DecisionHere']_vars

\* a check has pruned the minute window of some but not all of its calls
\* and denies
C15_Witness ==
    /\ pc[1] = "checked"
    /\ read_at[1] = now
    /\ minute_requests # <<>>
    /\ Len(daily_requests) > Len(minute_requests)
    /\ ~ret[1].allowed

\* b is a with t appended
Appended(a, b, t) ==
    /\ Len(b) = Len(a) + 1
    /\ SubSeq(b, 1, Len(a)) = a
    /\ b[Len(b)] = t

\* the step appended the clock's value to the three lists and set
\* last_request_time to it
RecordedInMemory ==
    /\ Appended(minute_requests, minute_requests', now)
    /\ Appended(daily_requests, daily_requests', now)
    /\ Appended(request_timestamps, request_timestamps', now)
    /\ last_request_time' = now
    /\ now' = now

\* the file after the step holds what the controller holds
WrittenThrough ==
    /\ file'.kind = "ok"
    /\ file'.minute_requests = minute_requests'
    /\ file'.daily_requests = daily_requests'
    /\ file'.last_request_time = last_request_time'

\* C16 as stated: every record_request(), in any state, appends the same
\* time to the three lists, sets last_request_time, and leaves the file
\* equal to the state in memory.
C16_AnyRecord ==
    [][(\E o \in WriteOutcomes : StoreRecordRequest(o))
          => RecordedInMemory /\ WrittenThrough]_vars

\* C16 amended: every record_request(), in any state and whatever becomes
\* of its write, appends the same time to the three lists and sets
\* last_request_time; when the write succeeds the file equals the state in
\* memory.
C16_RecordEffect ==
    [][/\ (\E o \in WriteOutcomes : StoreRecordRequest(o))
            => RecordedInMemory
       /\ StoreRecordRequest("ok") => WrittenThrough]_vars

\* a call was recorded and written although the minute window was full
C16_Witness ==
    /\ last_request_time = now
    /\ Len(Prune(minute_requests, now, MINUTE_WINDOW))
          > MAX_REQUESTS_PER_MINUTE
    /\ Len(request_timestamps) > 0
    /\ file.kind = "ok"
    /\ file.minute_requests = minute_requests

\* what can_make_request() would return now, computed from every call
\* recorded, written to the file or not
DecisionAsIfWritten ==
    can_make_request(Prune(history, now, MINUTE_WINDOW),
                     Prune(history, now, DAY_WINDOW),
                     Prune(InProcess, now, BURST_WINDOW),
                     IF history = <<>> THEN 0 ELSE history[Len(history)],
                     now)

\* C17 as stated: a record_request() whose write fails has updated the
\* state in memory and left the file as it was, and every check of the
\* process decides as it would had every write succeeded.
C17_WriteErrorsSwallowed ==
    /\ [](DecisionHere = DecisionAsIfWritten)
    /\ [][(\E o \in WriteOutcomes \ {"ok"} : StoreRecordRequest(o))
             => RecordedInMemory /\ file' = file]_vars

\* with fewer than BURST_THRESHOLD calls of this process in the last 60 s
\* the backoff is 0, and a check the cooldown denied was made less than
\* REQUEST_COOLDOWN after the last call
NoBackoffBelowThreshold ==
    /\ Len(Within(request_timestamps, now, MINUTE_WINDOW)) < BURST_THRESHOLD
          => calculate_backoff_time(request_timestamps, now) = 0
    /\ \A c \in Callers :
          (/\ pc[c] = "checked"
           /\ ret[c].rule = "cooldown"
           /\ Len(request_timestamps) < BURST_THRESHOLD)
             => read_at[c] - last_request_time < REQUEST_COOLDOWN

\* C18: a restart leaves request_timestamps empty whatever the file holds,
\* and in every state the backoff is 0 while request_timestamps, which
\* holds only calls recorded by this process, has fewer than three entries
\* of the last 60 s: the cooldown then denies only within REQUEST_COOLDOWN
\* of the last call, however many calls the file's minute window holds.
C18_BurstNotPersisted ==
    [][/\ Restart => request_timestamps' = <<>>
       /\ NoBackoffBelowThreshold
       /\ NoBackoffBelowThreshold']_vars

\* after a call recorded in this run and a restart, a check is allowed
\* REQUEST_COOLDOWN after the last call although the minute window loaded
\* from the file holds three or more calls
C18_Witness ==
    /\ pc[1] = "checked"
    /\ ret[1].allowed
    /\ request_timestamps = <<>>
    /\ last_request_time >= StartTime
    /\ Len(minute_requests) >= BURST_THRESHOLD
    /\ now - last_request_time = REQUEST_COOLDOWN

\* C19: a get_stats() call reports, for the minute and the day, the number
\* of entries younger than the window as used and the limit less that as
\* remaining, and MAX_TOKENS_PER_MINUTE as it is configured; it takes out
\* expired entries only, and what can_make_request() returns now or after
\* any wait is what it would have returned without the call.  No check is
\* ever denied by anything but the minute, daily and cooldown rules.
C19_StatsReport ==
    [][/\ ApiGetStats =>
            /\ stats'[1].minute_used
                  = Len(Within(minute_requests, now, MINUTE_WINDOW))
            /\ stats'[1].daily_used
                  = Len(Within(daily_requests, now, DAY_WINDOW))
            /\ stats'[1].minute_limit = MAX_REQUESTS_PER_MINUTE
            /\ stats'[1].daily_limit = MAX_REQUESTS_PER_DAY
            /\ stats'[1].minute_used + stats'[1].minute_remaining
                  = MAX_REQUESTS_PER_MINUTE
            /\ stats'[1].daily_used + stats'[1].daily_remaining
                  = MAX_REQUESTS_PER_DAY
            /\ stats'[1].tokens_per_minute = MAX_TOKENS_PER_MINUTE
            /\ OnlyExpiredRemoved(minute_requests, minute_requests', now,
                                  MINUTE_WINDOW)
            /\ OnlyExpiredRemoved(daily_requests, daily_requests', now,
                                  DAY_WINDOW)
            /\ last_request_time' = last_request_time
            /\ \A d \in {0} \cup StepsAPI :
                  DecisionAt(now + d)' = DecisionAt(now + d)
       /\ ret'[1].rule \in {"unset", "none", "minute", "daily", "cooldown"}
      ]_vars

\* get_stats() has pruned the minute window of some of its calls and
\* reports the rest
C19_Witness ==
    /\ pc[1] = "input"
    /\ read_at[1] = now
    /\ stats[1].minute_used > 0
    /\ stats[1].daily_used > stats[1].minute_used
    /\ Len(minute_requests) = stats[1].minute_used

\* the step changes nothing of the limiter, the file or the recorded calls
LimiterUntouched ==
    /\ limiter' = limiter
    /\ file' = file
    /\ history' = history

\* the run of caller c has an allowed check and, after it, a recorded call
\* that is still the last one
CheckedThenRecorded(c) ==
    /\ ret[c] = Allowed
    /\ read_at[c] > 0
    /\ history # <<>>
    /\ history[Len(history)] >= read_at[c]
    /\ last_request_time = history[Len(history)]

\* C20: the handler is at the agent call only after an allowed check and
\* the record_request() that follows it, and shows an answer only from
\* there; a run whose check denied records nothing, calls nothing and ends
\* showing the denial's message; a small-talk reply comes from a run that
\* has not called can_make_request() and leaves the limiter as it is; the
\* recorded call stays when the agent call ends in an error.
C20_CallerProtocol ==
    [][/\ pc[1] = "calling" => CheckedThenRecorded(1)
       /\ pc'[1] = "calling" => CheckedThenRecorded(1)'
       /\ (response_output'[1] # response_output[1]
              /\ response_output'[1].kind \in {"answer", "error"})
            => pc[1] = "calling" /\ LimiterUntouched
       /\ (pc[1] = "checked" /\ ~ret[1].allowed) =>
              /\ history' = history
              /\ file' = file
              /\ pc'[1] \in {"checked", "idle"}
              /\ (pc'[1] = "idle" /\ ~Restart) =>
                    /\ limiter' = limiter
                    /\ response_output'[1] = DenialOutput(ret[1])
       /\ (response_output'[1] # response_output[1]
              /\ response_output'[1].kind = "small talk")
            => pc[1] = "input" /\ ret[1] = NoRet /\ LimiterUntouched
       /\ (response_output'[1] # response_output[1]
              /\ response_output'[1].kind = "denial")
            => pc[1] = "checked" /\ ~ret[1].allowed]_vars

\* the agent call that followed a recorded call ended in an error and the
\* call is still counted
C20_Witness ==
    /\ pc[1] = "idle"
    /\ response_output[1].kind = "error"
    /\ last_request_time = now
    /\ history[Len(history)] = now
    /\ minute_requests[Len(minute_requests)] = now
    /\ file.kind = "ok"
    /\ file.last_request_time = now

\* the calls recorded in the closed 60 s window that ends at time t
CallsInClosedMinute(t) ==
    Len(SelectSeq(history, LAMBDA x : t - x <= MINUTE_WINDOW))

\* C21: in one process started with no file and never restarted, whose
\* caller records only after an allowed check, fewer than
\* MAX_REQUESTS_PER_MINUTE calls are recorded in any 60 s window, the lists
\* in memory never hold that many, and no check is denied by the minute
\* rule.
C21_BackoffBelowCeiling ==
    /\ CallsInClosedMinute(now) < MAX_REQUESTS_PER_MINUTE
    /\ Len(minute_requests) < MAX_REQUESTS_PER_MINUTE
    /\ ret[1].rule # "minute"

\* six calls in the last 60 s, and a check made REQUEST_COOLDOWN or more
\* after the last of them is denied by the backoff
C21_Witness ==
    /\ CallsInMinute(now) >= 6
    /\ pc[1] = "checked"
    /\ ret[1].rule = "cooldown"
    /\ now - last_request_time >= REQUEST_COOLDOWN

\* the wait the minute rule computes (lines 87-88), and the one the
\* cooldown rule computes (line 98)
MinuteWait == wait_time(minute_requests, now)
CooldownWait == cooldown(request_timestamps, now) - (now - last_request_time)

\* no result of can_make_request() at time t, nothing recorded until then,
\* is a denial by rule
NotDeniedBy(rule, t) == \A r \in DecisionAt(t) : r.rule # rule

\* the minute rule's wait is positive and at most 60 s
MinuteWaitBounded ==
    /\ MinuteWait > 0
    /\ MinuteWait <= MINUTE_WINDOW

\* the cooldown rule's wait is positive, at most REQUEST_COOLDOWN + 60 s,
\* and a check made that much later is not denied by the cooldown rule
CooldownWaitSound ==
    /\ CooldownWait > 0
    /\ CooldownWait <= REQUEST_COOLDOWN + BACKOFF_CAP
    /\ NotDeniedBy("cooldown", now + CooldownWait)

AllowedWithinADay == DecisionAt(now + DAY_WINDOW) = {Allowed}

\* a check that would be allowed before the step would be allowed after
\* it, unless the step recorded a call
StaysAllowed ==
    (Allowed \in DecisionHere /\ history' = history)
        => Allowed \in DecisionHere'

\* C23 as stated: from every state, with nothing recorded,
\* can_make_request() returns (True, None) once 86400 s have passed at the
\* latest, and once it would it keeps doing so until a call is recorded.
C23_NoPermanentDenial ==
    [][AllowedWithinADay /\ AllowedWithinADay' /\ StaysAllowed]_vars

====
